---- MODULE Spec2Model ----
(***************************************************************************)
(* Model of consolidator's batch decode: processor::process walks the      *)
(* entries of a directory and, for each regular file, runs get_sample_buf  *)
(* (probe, default track, decoder, then the packet loop that fills one     *)
(* symphonia SampleBuffer).  The directory iterator, File::open and the    *)
(* symphonia format reader / decoder are the environment: each call's      *)
(* result is drawn from the results the call can produce.                  *)
(***************************************************************************)
EXTENDS Integers, Sequences, FiniteSets, TLC

\* ------------------------------------------------------------------ bounds
MaxEntries == 2      \* items the directory iterator yields at most
MaxPackets == 2      \* packets a file's format reader yields at most
MaxCap == 2          \* largest capacity (in frames) of a decoded audio buffer

\* --------------------------------------------------------- input domains
TrackIds == {0, 1}
AudioSpecs == { [rate |-> 44, channels |-> 1], [rate |-> 48, channels |-> 2] }
\* symphonia errors other than ResetRequired
OtherErrors == {"IoError", "DecodeError"}
\* file types a directory entry can report
FileTypes == {"file", "dir", "symlink"}

\* A decoded audio buffer of packet k: planar, `frames` frames written out of
\* `capacity`; the sample of channel ch at frame i is the tag <<k, ch, i>>.
AudioBufs(k) ==
    { [spec |-> s, capacity |-> c, frames |-> n, id |-> k] :
        s \in AudioSpecs, c \in 1..MaxCap, n \in 0..MaxCap }

VARIABLES
    pc,            \* position of process(): start, iter, setup, next_packet, decode, done
    result,        \* how process() ended: none, Ok, Err, Panic
    listing,       \* items the directory iterator has yielded so far, in order
    opened,        \* paths File::open returned Ok for, in order
    cur,           \* entry.path() of the file being decoded
    log,           \* records emitted through tracing at the default INFO level
    written,       \* files the run has written into the target directory
    track_id,      \* id of the default track
    nread,         \* packets next_packet has yielded for the current file
    packet,        \* track id of the packet fetched last
    audio_buf,     \* Option: the audio buffer decode returned for the current packet
    sample_buf,    \* Option<SampleBuffer<f32>>: <<>> is None, <<b>> is Some(b)
    sample_count,  \* cumulative sample-count telemetry
    nframes,       \* audio buffers copied into sample_buf for the current file
    returned,      \* Option: the buffer get_sample_buf handed to process_impl
    last           \* the last environment call and its result

vars == <<pc, result, listing, opened, cur, log, written, track_id, nread, packet,
          audio_buf, sample_buf, sample_count, nframes, returned, last>>

dirVars == <<listing, opened, cur>>
fileVars == <<track_id, nread, packet, audio_buf, sample_buf, sample_count, nframes>>

\* --------------------------------------------------------------- tracing
LogProcessing == [level |-> "INFO", msg |-> "Processing path", path |-> 0, arg |-> "-"]
LogFound(p) == [level |-> "INFO", msg |-> "Found Regular file", path |-> p, arg |-> "-"]
\* variant: the record names the directory argument instead of the entry's path
LogSuccess_DirPath(p) ==
    [level |-> "INFO", msg |-> "Successfully processed file", path |-> 0, arg |-> "-"]
LogSuccess(p) ==
    [level |-> "INFO", msg |-> "Successfully processed file", path |-> p, arg |-> "-"]
LogWarn(p, e) ==
    [level |-> "WARN", msg |-> "Could not process file", path |-> p, arg |-> e]
LogAssume ==
    [level |-> "INFO", msg |-> "Assuming reset-required marks end-of-stream",
     path |-> 0, arg |-> "-"]
LogGot(n) == [level |-> "INFO", msg |-> "Got sample buffer", path |-> 0, arg |-> n]

\* ---------------------------------------------------- symphonia SampleBuffer
\* SampleBuffer::new(duration, spec): room for duration * channels samples,
\* none written.
SampleBufferNew(duration, spec) ==
    [spec |-> spec, cap |-> duration * spec.channels, data |-> <<>>]

\* src.chan(ch): the plane of channel ch
Chan(ab, ch) == [i \in 1..ab.frames |-> <<ab.id, ch, i>>]

NSamples(ab) == ab.frames * ab.spec.channels

\* the interleaved order: frame by frame, within a frame channel by channel
Interleaved(ab) ==
    [p \in 1..NSamples(ab) |->
        Chan(ab, ((p - 1) % ab.spec.channels) + 1)[((p - 1) \div ab.spec.channels) + 1]]

\* copy_interleaved_ref asserts the buffer has room for the source's samples
CopyFits(buf, ab) == buf.cap >= NSamples(ab)

\* copy_interleaved_ref(src): the written samples become src's, interleaved
CopyInterleaved(buf, ab) == [buf EXCEPT !.data = Interleaved(ab)]

\* ------------------------------------------------------------------ main
\* the process exit status main's Result (or a panic) gives
ExitCode == IF result = "Ok" THEN 0 ELSE IF result = "Err" THEN 1 ELSE 101

\* --------------------------------------------------------------- process
\* variant: everything that is not a directory counts as a file
IsFile_NotDir(ft) == ft # "dir"
\* file_type.is_file()
IsFile(ft) == ft = "file"

Init ==
    /\ pc = "start"
    /\ result = "none"
    /\ listing = <<>>
    /\ opened = <<>>
    /\ cur = 0
    /\ log = <<>>
    /\ written = <<>>
    /\ track_id = 0
    /\ nread = 0
    /\ packet = 0
    /\ audio_buf = <<>>
    /\ sample_buf = <<>>
    /\ sample_count = 0
    /\ nframes = 0
    /\ returned = <<>>
    /\ last = [op |-> "none", res |-> "none"]

\* a panic unwinds out of process() and main
Panic ==
    /\ pc' = "done"
    /\ result' = "Panic"

\* process() returns through `?`
ReturnErr ==
    /\ pc' = "done"
    /\ result' = "Err"

\* std::fs::read_dir(p)?
ReadDir ==
    /\ pc = "start"
    /\ log' = Append(log, LogProcessing)
    /\ \E ok \in BOOLEAN :
        IF ok
        THEN /\ last' = [op |-> "read_dir", res |-> "Ok"]
             /\ pc' = "iter"
             /\ result' = result
        ELSE /\ last' = [op |-> "read_dir", res |-> "Err"]
             /\ ReturnErr
    /\ UNCHANGED <<dirVars, fileVars, written, returned>>

\* The locals of a finished get_sample_buf / process_impl call stay readable
\* until the loop moves on to the next item; then they are gone.
FileGone ==
    /\ track_id' = 0
    /\ nread' = 0
    /\ packet' = 0
    /\ audio_buf' = <<>>
    /\ sample_buf' = <<>>
    /\ sample_count' = 0
    /\ nframes' = 0
    /\ returned' = <<>>

\* the iterator is exhausted: process() returns Ok(())
IterEnd ==
    /\ pc = "iter"
    /\ last' = [op |-> "entries_next", res |-> "None"]
    /\ pc' = "done"
    /\ result' = "Ok"
    /\ FileGone
    /\ UNCHANGED <<dirVars, log, written>>

\* the path of the item the iterator yields next: the i-th item is named i
NextName == Len(listing) + 1

\* the iterator yields Err: `res?` returns it
IterEntryErr ==
    /\ pc = "iter"
    /\ Len(listing) < MaxEntries
    /\ listing' = Append(listing, [name |-> NextName, kind |-> "entry_err"])
    /\ last' = [op |-> "entries_next", res |-> "Err"]
    /\ ReturnErr
    /\ FileGone
    /\ UNCHANGED <<opened, cur, log, written>>

\* variant: the file_type() error is returned, as `entry.file_type()?` would
FileTypeErr_Propagate == ReturnErr
\* `if let Ok(file_type) = entry.file_type()` has no else: the loop goes on
FileTypeErr ==
    /\ pc' = "iter"
    /\ result' = result

\* an entry whose file_type() fails or is no regular file: nothing is done
IterSkip ==
    /\ pc = "iter"
    /\ Len(listing) < MaxEntries
    /\ \E n \in {NextName}, ft \in FileTypes \cup {"ftype_err"} :
        /\ ft = "ftype_err" \/ ~IsFile(ft)
        /\ listing' = Append(listing, [name |-> n, kind |-> ft])
        /\ last' = [op |-> "file_type", res |-> IF ft = "ftype_err" THEN "Err" ELSE ft]
        /\ IF ft = "ftype_err"
           THEN FileTypeErr
           ELSE /\ pc' = "iter"
                /\ result' = result
    /\ FileGone
    /\ UNCHANGED <<opened, cur, log, written>>

\* a regular file: File::open(entry.path())?
IterOpen ==
    /\ pc = "iter"
    /\ Len(listing) < MaxEntries
    /\ \E n \in {NextName}, ft \in FileTypes, ok \in BOOLEAN :
        /\ IsFile(ft)
        /\ listing' = Append(listing, [name |-> n, kind |-> ft])
        /\ log' = Append(log, LogFound(n))
        /\ IF ok
           THEN /\ last' = [op |-> "open", res |-> "Ok"]
                /\ opened' = Append(opened, n)
                /\ cur' = n
                /\ pc' = "setup"
                /\ result' = result
           ELSE /\ last' = [op |-> "open", res |-> "Err"]
                /\ ReturnErr
                /\ UNCHANGED <<opened, cur>>
    /\ FileGone
    /\ UNCHANGED written

\* ---------------------------------------------------------- process_impl
\* get_sample_buf returned Ok(buf): process_impl logs its length, process
\* logs the success and goes on with the next entry
FileOk(buf) ==
    /\ returned' = <<buf>>
    /\ log' = log \o <<LogAssume, LogGot(Len(buf.data)), LogSuccess(cur)>>
    /\ pc' = "iter"
    /\ result' = result

\* variant: the error is ignored and the packet loop goes on with the next packet
FileErr_Continue(e) ==
    /\ returned' = returned
    /\ log' = log
    /\ pc' = "next_packet"
    /\ result' = result

\* get_sample_buf returned Err(e): process warns and goes on with the next entry
FileErr(e) ==
    /\ returned' = <<>>
    /\ log' = Append(log, LogWarn(cur, e))
    /\ pc' = "iter"
    /\ result' = result

\* -------------------------------------------------------- get_sample_buf
\* variant: the buffer is allocated before the first frame is seen
NoSampleBuf_Prealloc ==
    <<SampleBufferNew(1, CHOOSE s \in AudioSpecs : s.channels = 1)>>
\* let mut sample_buf = None
NoSampleBuf == <<>>

\* variant: packets of every track are decoded
IsSelected_Any(t, tid) == TRUE
\* packet.track_id() != track_id: the packet is skipped
IsSelected(t, tid) == t = tid

\* variant: the end-of-stream branch looks at the telemetry count
BufIsSome_ByCount == sample_count > 0
\* if let Some(sample_buf) = sample_buf
BufIsSome == sample_buf # <<>>

\* variant: a buffer is created for every decoded frame
BufFor_Always(sb, ab) == SampleBufferNew(ab.capacity, ab.spec)
\* the buffer the frame is copied into: created from the first decoded frame
BufFor(sb, ab) ==
    IF sb = <<>> THEN SampleBufferNew(ab.capacity, ab.spec) ELSE sb[1]

\* probe, default track, decoder: each is unwrapped
Setup ==
    /\ pc = "setup"
    /\ \E o \in {"ok", "probe", "default_track", "make"} :
        IF o = "ok"
        THEN /\ last' = [op |-> "make", res |-> "Ok"]
             /\ \E t \in TrackIds : track_id' = t
             /\ sample_count' = 0
             /\ sample_buf' = NoSampleBuf
             /\ nframes' = 0
             /\ nread' = 0
             /\ audio_buf' = <<>>
             /\ returned' = <<>>
             /\ pc' = "next_packet"
             /\ result' = result
             /\ UNCHANGED packet
        ELSE /\ last' = [op |-> o, res |-> IF o = "default_track" THEN "None" ELSE "Err"]
             /\ Panic
             /\ UNCHANGED <<fileVars, returned>>
    /\ UNCHANGED <<dirVars, log, written>>

\* format.next_packet() yields a packet
NextPacketOk ==
    /\ pc = "next_packet"
    /\ nread < MaxPackets
    /\ \E t \in TrackIds :
        /\ packet' = t
        /\ pc' = IF ~IsSelected(t, track_id) THEN "next_packet" ELSE "decode"
    /\ nread' = nread + 1
    /\ last' = [op |-> "next_packet", res |-> "Ok"]
    /\ audio_buf' = <<>>
    /\ UNCHANGED <<result, dirVars, log, written, returned, track_id,
                   sample_buf, sample_count, nframes>>

\* format.next_packet() yields ResetRequired
NextPacketReset ==
    /\ pc = "next_packet"
    /\ last' = [op |-> "next_packet", res |-> "ResetRequired"]
    /\ IF BufIsSome
       THEN FileOk(sample_buf[1])
       ELSE /\ Panic
            /\ UNCHANGED <<log, returned>>
    /\ audio_buf' = <<>>
    /\ UNCHANGED <<dirVars, track_id, nread, packet, sample_buf, sample_count, nframes,
                   written>>

\* format.next_packet() yields another error
NextPacketErr ==
    /\ pc = "next_packet"
    /\ \E e \in OtherErrors :
        /\ last' = [op |-> "next_packet", res |-> e]
        /\ FileErr(e)
    /\ audio_buf' = <<>>
    /\ UNCHANGED <<dirVars, track_id, nread, packet, sample_buf, sample_count, nframes,
                   written>>

\* decoder.decode(&packet) yields an audio buffer
DecodeOk ==
    /\ pc = "decode"
    /\ \E ab \in AudioBufs(nread) :
        /\ ab.frames <= ab.capacity
        /\ last' = [op |-> "decode", res |-> "Ok"]
        /\ audio_buf' = <<ab>>
        /\ LET buf == BufFor(sample_buf, ab)
           IN IF CopyFits(buf, ab)
              THEN /\ sample_buf' = <<CopyInterleaved(buf, ab)>>
                   /\ sample_count' = sample_count + Len(Interleaved(ab))
                   /\ nframes' = nframes + 1
                   /\ pc' = "next_packet"
                   /\ result' = result
              ELSE /\ sample_buf' = <<buf>>
                   /\ Panic
                   /\ UNCHANGED <<sample_count, nframes>>
    /\ UNCHANGED <<dirVars, log, written, returned, track_id, nread, packet>>

\* decoder.decode(&packet) yields ResetRequired
DecodeReset ==
    /\ pc = "decode"
    /\ last' = [op |-> "decode", res |-> "ResetRequired"]
    /\ Panic
    /\ UNCHANGED <<dirVars, fileVars, log, written, returned>>

\* decoder.decode(&packet) yields another error
DecodeErr ==
    /\ pc = "decode"
    /\ \E e \in OtherErrors :
        /\ last' = [op |-> "decode", res |-> e]
        /\ FileErr(e)
    /\ UNCHANGED <<dirVars, fileVars, written>>

Next ==
    \/ ReadDir
    \/ IterEnd
    \/ IterEntryErr
    \/ IterSkip
    \/ IterOpen
    \/ Setup
    \/ NextPacketOk
    \/ NextPacketReset
    \/ NextPacketErr
    \/ DecodeOk
    \/ DecodeReset
    \/ DecodeErr

Spec == Init /\ [][Next]_vars

\* process() is one sequential thread working on local files: as long as a
\* step is possible, one is taken
FairSpec == Init /\ [][Next]_vars /\ WF_vars(Next)

\* ================================================================ claims
Last(q) == q[Len(q)]
IsPrefix(a, b) == Len(a) <= Len(b) /\ SubSeq(b, 1, Len(a)) = a

\* a fault of one file: open, probe, default track, decoder creation, or an
\* error other than ResetRequired from next_packet / decode
PerFileFault(l) ==
    \/ l.op \in {"open", "probe", "make"} /\ l.res = "Err"
    \/ l.op = "default_track" /\ l.res = "None"
    \/ l.op \in {"next_packet", "decode"} /\ l.res \in OtherErrors

\* a failure of the directory listing itself
DirFault(l) == l.op \in {"read_dir", "entries_next"} /\ l.res = "Err"

IsOutcome(r) == r.msg \in {"Successfully processed file", "Could not process file"}
IsWarnFor(r, p) == r.level = "WARN" /\ r.msg = "Could not process file" /\ r.path = p
PathsOf(q) == [i \in 1..Len(q) |-> q[i].path]
NamesOf(q) == [i \in 1..Len(q) |-> q[i].name]
IsFileEntry(e) == e.kind = "file"
IsSuccess(r) == r.msg = "Successfully processed file"

\* paths of the per-file outcome records (success or failure), in log order
OutcomePaths == PathsOf(SelectSeq(log, IsOutcome))
\* paths of the successfully decoded files, in log order
SuccessPaths == PathsOf(SelectSeq(log, IsSuccess))
\* paths of the regular files the listing has yielded, in listing order
FilePaths == NamesOf(SelectSeq(listing, IsFileEntry))

\* C1: batch isolation. Whenever one file faults (open error, probe error,
\* missing default track, decoder-creation error, decode fault), the batch
\* loop goes on with the next directory entry: the run is not ended.
C1_BatchIsolation ==
    [][ (last' # last /\ PerFileFault(last')) => (pc' = "iter" /\ result' = "none") ]_vars

\* C2: EOF asymmetry, success branch. A ResetRequired from next_packet or from
\* decode, once at least one frame has been decoded, ends the file's decode
\* with a returned buffer and a success record for the file.
C2_ResetAfterFrameSucceeds ==
    [][ (last' # last /\ last'.op \in {"next_packet", "decode"}
            /\ last'.res = "ResetRequired" /\ sample_buf # <<>>)
        => (/\ pc' = "iter"
            /\ result' = "none"
            /\ returned' = sample_buf
            /\ log' # <<>>
            /\ Last(log') = LogSuccess(cur)) ]_vars

\* C3: EOF asymmetry, failure branch. A ResetRequired before any frame has been
\* decoded is a failure of that file only: a failure record naming the file is
\* logged and the batch loop goes on.
C3_PrematureResetIsPerFile ==
    [][ (last' # last /\ last'.op \in {"next_packet", "decode"}
            /\ last'.res = "ResetRequired" /\ sample_buf = <<>>)
        => (/\ pc' = "iter"
            /\ result' = "none"
            /\ returned' = <<>>
            /\ Len(log') = Len(log) + 1
            /\ IsWarnFor(Last(log'), cur)) ]_vars

\* C4: process() returns an error exactly when listing the directory failed;
\* in every other case the run exits with status zero.
C4_ErrIffListingFails ==
    pc = "done" =>
        /\ (result = "Err") <=> DirFault(last)
        /\ ~DirFault(last) => ExitCode = 0

\* C5: a run that ends successfully, with at least one file decoded, has
\* written exactly one output container, with one chapter per successfully
\* decoded file, titled by its path, in order.
C5_OneOutputOneChapterPerSuccess ==
    (pc = "done" /\ result = "Ok" /\ SuccessPaths # <<>>) =>
        /\ Len(written) = 1
        /\ written[1].chapters = SuccessPaths

\* C6: format lock-in. A decoded frame whose spec differs from the spec the
\* sample buffer was created with fails the file's decode with an error; the
\* buffer is left as it was.
C6_FormatLockIn ==
    [][ (pc = "decode" /\ audio_buf' # <<>> /\ sample_buf # <<>>
            /\ audio_buf'[1].spec # sample_buf[1].spec)
        => (/\ pc' = "iter"
            /\ result' = "none"
            /\ sample_buf' = sample_buf
            /\ returned' = <<>>
            /\ Len(log') = Len(log) + 1
            /\ IsWarnFor(Last(log'), cur)) ]_vars

\* C7: sample accumulation. The buffer a successful decode returns holds as
\* many samples as all decoded frames of the file together (the cumulative
\* count), not only those of the last frame.
C7_ReturnedHoldsAllFrames ==
    returned # <<>> => Len(returned[1].data) = sample_count

C9_OnlyRegularFilesOpened ==
    [][ /\ (opened' # opened =>
              /\ Len(listing') = Len(listing) + 1
              /\ Last(listing').kind = "file"
              /\ opened' = Append(opened, Last(listing').name))
        /\ ((listing' # listing /\ Last(listing').kind \in {"dir", "symlink"}) =>
              /\ opened' = opened
              /\ log' = log
              /\ written' = written
              /\ pc' = "iter"
              /\ result' = "none") ]_vars

\* a directory was passed over and the regular file after it decoded
C9_Witness ==
    /\ Len(listing) = 2
    /\ listing[1].kind = "dir"
    /\ listing[2].kind = "file"
    /\ opened = <<2>>
    /\ pc = "iter"
    /\ returned # <<>>
    /\ SuccessPaths = <<2>>

\* C10: order preservation. The outcome records name the opened files in the
\* order the listing yielded them, and every file opened earlier has its
\* outcome record before the next file is opened.
C10_OutcomesInListingOrder ==
    /\ IsPrefix(opened, FilePaths)
    /\ Len(opened) >= Len(FilePaths) - 1
    /\ IsPrefix(OutcomePaths, opened)
    /\ Len(OutcomePaths) >= Len(opened) - 1
    /\ pc = "iter" => OutcomePaths = opened

\* the first file failed, the second was opened after it and succeeded
C10_Witness ==
    /\ pc = "iter"
    /\ opened = <<1, 2>>
    /\ OutcomePaths = <<1, 2>>
    /\ SuccessPaths = <<2>>

\* C11: a packet whose track id differs from the default track's is dropped:
\* it is not decoded and leaves the sample buffer, its descriptor, the
\* cumulative count and the number of decoded frames as they were.
C11_OtherTracksDiscarded ==
    [][ (pc = "next_packet" /\ nread' = nread + 1 /\ packet' # track_id)
        => (/\ pc' = "next_packet"
            /\ audio_buf' = <<>>
            /\ sample_buf' = sample_buf
            /\ sample_count' = sample_count
            /\ nframes' = nframes
            /\ returned' = returned
            /\ log' = log
            /\ result' = result) ]_vars

\* a packet of another track was dropped after a frame had been decoded
C11_Witness ==
    /\ pc = "next_packet"
    /\ last = [op |-> "next_packet", res |-> "Ok"]
    /\ packet # track_id
    /\ nread = 2
    /\ nframes = 1
    /\ sample_buf # <<>>

\* the outcome records of path p
OutcomesOf(p) == { j \in 1..Len(log) : IsOutcome(log[j]) /\ log[j].path = p }

\* C12: once a file is finished with (the loop is back at its head, or the run
\* is over), every opened file has exactly one outcome record, and every
\* regular file the listing yielded has one.
C12_OneOutcomePerFile ==
    pc \in {"iter", "done"} =>
        /\ \A i \in 1..Len(opened) : Cardinality(OutcomesOf(opened[i])) = 1
        /\ \A i \in 1..Len(FilePaths) : Cardinality(OutcomesOf(FilePaths[i])) = 1

\* C13: within one file's decode the sample buffer is created once, by the
\* first decoded frame and with that frame's spec and capacity; no later step
\* changes its spec or capacity.
C13_DescriptorSetOnce ==
    [][ /\ (sample_buf = <<>> /\ sample_buf' # <<>>) =>
              /\ pc = "decode"
              /\ nframes = 0
              /\ audio_buf' # <<>>
              /\ sample_buf'[1].spec = audio_buf'[1].spec
              /\ sample_buf'[1].cap = audio_buf'[1].capacity * audio_buf'[1].spec.channels
        /\ (sample_buf # <<>> /\ sample_buf' # <<>>) =>
              /\ sample_buf'[1].spec = sample_buf[1].spec
              /\ sample_buf'[1].cap = sample_buf[1].cap ]_vars

\* a second frame of another spec was copied; the buffer kept the first spec
C13_Witness ==
    /\ pc = "next_packet"
    /\ nframes = 2
    /\ audio_buf # <<>>
    /\ sample_buf # <<>>
    /\ audio_buf[1].spec # sample_buf[1].spec

\* C14: the first frame's capacity is only a hint. A later frame of the same
\* spec with more samples than that capacity is stored and the decode goes on.
C14_CapacityIsAHint ==
    [][ (pc = "decode" /\ audio_buf' # <<>> /\ sample_buf # <<>>
            /\ audio_buf'[1].spec = sample_buf[1].spec
            /\ NSamples(audio_buf'[1]) > sample_buf[1].cap)
        => (/\ pc' = "next_packet"
            /\ result' = "none"
            /\ nframes' = nframes + 1
            /\ sample_buf' # <<>>
            /\ Len(sample_buf'[1].data) >= NSamples(audio_buf'[1])) ]_vars

\* where the packet loop goes after a step, told from everything but the
\* telemetry count: the call's result l, the fetched packet's track t, the
\* decoded buffer ab (an Option) and the sample buffer sb before the step
ControlWithoutCount(p, l, t, ab, sb) ==
    IF p = "next_packet"
    THEN CASE l.res = "Ok" ->
                <<IF t = track_id THEN "decode" ELSE "next_packet", "none">>
           [] l.res = "ResetRequired" ->
                IF sb # <<>> THEN <<"iter", "none">> ELSE <<"done", "Panic">>
           [] OTHER -> <<"iter", "none">>
    ELSE CASE l.res = "Ok" ->
                IF NSamples(ab[1]) <=
                     (IF sb = <<>> THEN ab[1].capacity * ab[1].spec.channels ELSE sb[1].cap)
                THEN <<"next_packet", "none">>
                ELSE <<"done", "Panic">>
           [] l.res = "ResetRequired" -> <<"done", "Panic">>
           [] OTHER -> <<"iter", "none">>

\* C15: within a file's decode the cumulative sample count never decreases (a
\* decoded frame adds its samples, nothing else changes it), and every branch
\* of the packet loop is determined without it.
C15_TelemetryMonotoneAndUnused ==
    [][ (pc = "next_packet" \/ pc = "decode") =>
          /\ sample_count' >= sample_count
          /\ sample_count' = sample_count +
                (IF nframes' = nframes + 1 THEN NSamples(audio_buf'[1]) ELSE 0)
          /\ <<pc', result'>> =
                ControlWithoutCount(pc, last', packet', audio_buf', sample_buf) ]_vars

\* two frames were decoded and the count holds more than the last frame
C15_Witness ==
    /\ pc = "next_packet"
    /\ nframes = 2
    /\ sample_buf # <<>>
    /\ Len(sample_buf[1].data) > 0
    /\ sample_count > Len(sample_buf[1].data)

\* C16: termination. With a finite listing and finite files, every decode
\* loop comes to an end and the run of process() ends.
C16_Terminates == <>(pc = "done")

\* a run over two opened files has ended
C16_Witness ==
    /\ pc = "done"
    /\ result = "Ok"
    /\ Len(opened) = 2
    /\ Len(OutcomePaths) = 2

\* C18: a buffer is returned only after at least one packet of the default
\* track was decoded and copied into it; the buffer returned is that one.
C18_SuccessNeedsADecodedFrame ==
    returned # <<>> =>
        /\ nframes >= 1
        /\ nframes <= nread
        /\ sample_buf # <<>>
        /\ returned = sample_buf

\* a file with one dropped packet and one decoded frame returned its buffer
C18_Witness ==
    /\ pc = "iter"
    /\ returned # <<>>
    /\ nread = 2
    /\ nframes = 1
    /\ last = [op |-> "next_packet", res |-> "ResetRequired"]

\* C19: an entry whose file_type() fails is passed over like a non-regular
\* entry: nothing is opened or recorded, the run goes on with the next entry.
C19_FileTypeErrorSkipped ==
    [][ (listing' # listing /\ Last(listing').kind = "ftype_err") =>
          /\ last' = [op |-> "file_type", res |-> "Err"]
          /\ opened' = opened
          /\ cur' = cur
          /\ log' = log
          /\ written' = written
          /\ pc' = "iter"
          /\ result' = "none" ]_vars

\* the entry after one whose file_type() failed was opened and decoded
C19_Witness ==
    /\ Len(listing) = 2
    /\ listing[1].kind = "ftype_err"
    /\ listing[2].kind = "file"
    /\ opened = <<2>>
    /\ pc = "iter"
    /\ OutcomePaths = <<2>>

====
